---- MODULE Spec2Model ----
(***************************************************************************)
(* The remote-asset importer of src/Python/tools/asset_tools.py:           *)
(* download_file, import_remote_asset and batch_import_remote_assets,      *)
(* run as coroutines of one asyncio event loop against a local file        *)
(* system, an HTTP server and the Unity connection.                        *)
(*                                                                         *)
(* A Python str is a sequence of one-character strings.  The two values    *)
(* PyInt and PyNone stand for arguments that are not str.                  *)
(***************************************************************************)
EXTENDS Integers, Sequences, FiniteSets, TLC

\* ------------------------------------------------------------------ bounds
\* Top-level tool invocations made over one run of the server.
MaxCalls == 2
\* Body chunks a download stream yields before its end.
MaxChunks == 1
\* Longest URL list handed to batch_import_remote_assets.
MaxUrls == 2

\* The coroutines that can be in flight together, and the one a client that
\* waits for each answer uses.
Req == {"r1", "r2"}
FirstReq == "r1"

\* ------------------------------------------------------------ Python values
PyInt == <<"int">>
PyNone == <<"None">>

\* Faulty variant of IsStr: the type of the argument is not looked at.
AnyType(v) == TRUE

\* isinstance(v, str)
IsStr(v) == v \notin {PyInt, PyNone}

\* bool(v) of a str, an int (non-zero here) or None
Truthy(v) == v # PyNone /\ v # <<>>

\* "Assets/"
AssetsPrefix == <<"A", "s", "s", "e", "t", "s", "/">>

\* s.startswith(p)
StartsWith(s, p) == Len(s) >= Len(p) /\ SubSeq(s, 1, Len(p)) = p

\* Index of the first occurrence of c in s, 0 when there is none.
RECURSIVE FindFrom(_, _, _)
FindFrom(s, c, i) ==
    IF i > Len(s) THEN 0
    ELSE IF s[i] = c THEN i
    ELSE FindFrom(s, c, i + 1)

\* s.split(c): the pieces of s between the occurrences of c, never empty.
RECURSIVE Split(_, _)
Split(s, c) ==
    LET k == FindFrom(s, c, 1)
    IN  IF k = 0 THEN <<s>>
        ELSE <<SubSeq(s, 1, k - 1)>> \o Split(SubSeq(s, k + 1, Len(s)), c)

\* c.join(parts)
RECURSIVE Join(_, _)
Join(parts, c) ==
    IF Len(parts) = 0 THEN <<>>
    ELSE IF Len(parts) = 1 THEN parts[1]
    ELSE parts[1] \o <<c>> \o Join(Tail(parts), c)

\* xs[-1]
LastOf(xs) == xs[Len(xs)]

\* xs[:-1]
ButLast(xs) == SubSeq(xs, 1, Len(xs) - 1)

\* ------------------------------------------------------------ the file name
\* url.split('/')[-1].split('?')[0]
FilenameFromUrl(url) == Split(LastOf(Split(url, "/")), "?")[1]

\* The last path segment of a URL: of what precedes its first '?', the part
\* after the last '/'.
LastPathSegment(url) == LastOf(Split(Split(url, "?")[1], "/"))

\* Faulty variant of NormalizeTarget: the target path is used as passed.
KeepTarget(target_path) == target_path

\* if not target_path.startswith("Assets/"): target_path = f"Assets/{target_path}"
NormalizeTarget(target_path) ==
    IF StartsWith(target_path, AssetsPrefix) THEN target_path
    ELSE AssetsPrefix \o target_path

\* '/'.join(target_path.split('/')[:-1])
TargetDir(target_path) == Join(ButLast(Split(target_path, "/")), "/")

\* target_path.split('/')[-1]
TargetFilename(target_path) == LastOf(Split(target_path, "/"))

\* ------------------------------------------------------------------ inputs
\* "h/m", "h/m?v", "h/m?r/x" (a query holding a '/'), "h/" (no file name)
UrlPlain == <<"h", "/", "m">>
UrlQuery == <<"h", "/", "m", "?", "v">>
UrlQuerySlash == <<"h", "/", "m", "?", "r", "/", "x">>
UrlNoName == <<"h", "/">>

\* The url arguments tried: the four above, the empty str and an int.
Urls == {UrlPlain, UrlQuery, UrlQuerySlash, UrlNoName, <<>>, PyInt}

\* The target_path arguments tried: "Assets/t", "t", the empty str and None.
Targets == {AssetsPrefix \o <<"t">>, <<"t">>, <<>>, PyNone}

\* The arguments of import_remote_asset tried by a client that waits for
\* each answer.
SequentialArgs ==
    [url : Urls, target_path : Targets, overwrite : BOOLEAN, temp_download : BOOLEAN]

\* The arguments of import_remote_asset tried where calls overlap: two URLs
\* of one file name, into temporary directories or into the shared cache.
OverlapArgs ==
    [url : {UrlPlain, UrlQuery}, target_path : {<<"t">>}, overwrite : {TRUE},
     temp_download : BOOLEAN]

\* The target_folder and overwrite arguments tried: "Assets/I" without
\* overwrite, and "I" with it.
BatchArgs ==
    {[target_folder |-> AssetsPrefix \o <<"I">>, overwrite |-> FALSE],
     [target_folder |-> <<"I">>, overwrite |-> TRUE]}

\* The elements of a urls argument.
BatchUrls == {UrlPlain, UrlQuerySlash, PyInt}

\* The urls arguments tried: every list of at most MaxUrls elements.
UrlLists == UNION {[1..n -> BatchUrls] : n \in 0..MaxUrls}

\* What a caller may pass as urls: a list, a generator that yields the
\* elements of such a list, the number 7, or None.  `items` are the elements
\* a list holds or a generator yields.
UrlsArgs ==
    [type : {"list", "generator"}, items : UrlLists]
        \cup {[type |-> "int", items |-> <<>>], [type |-> "None", items |-> <<>>]}

\* Faulty variant of NothingToDo: urls is not looked at.
AlwaysSomethingToDo(urls_type, urls) == FALSE

\* Line 411: not urls.  An empty list and None are falsy; a generator, also
\* one that yields nothing, and the number 7 are truthy.
NothingToDo(urls_type, urls) ==
    \/ urls_type = "list" /\ Len(urls) = 0
    \/ urls_type = "None"

\* Line 415: enumerate(urls) takes a list or a generator; on anything else
\* it raises TypeError.
Iterable(urls_type) == urls_type \in {"list", "generator"}

\* Lines 429 and 431: len(urls) takes a list; on a generator it raises
\* TypeError.
HasLen(urls_type) == urls_type = "list"

\* An asset of the project that no call targets: "Assets/zz".
OtherAsset == AssetsPrefix \o <<"z", "z">>

\* ------------------------------------------------------------- file system
\* os.path.join(os.path.expanduser("~"), ".unity_mcp_downloads")
CacheDir == <<"cache", 0>>

\* A directory tempfile.mkdtemp() can make.
TempDir(n) == <<"tmp", n>>

\* No directory: the value of temp_dir before it is assigned.
NoDir == <<"none", 0>>

\* os.path.join(directory, filename)
PathJoin(directory, filename) == <<directory, filename>>

\* os.path.dirname(path)
DirName(path) == path[1]

\* -------------------------------------------------------------------- state
VARIABLES
    pc,        \* where each coroutine stands
    arg,       \* the arguments of its current import_remote_asset invocation
    loc,       \* the local variables of that invocation and of its download_file
    bat,       \* the arguments and locals of its batch_import_remote_assets
    ret,       \* what its last import_remote_asset returned
    bret,      \* what its last batch_import_remote_assets returned
    log,       \* the collaborator calls of its current tool invocation, in order
    mark,      \* Len(log) when its current import_remote_asset was entered
    dirs,      \* the directories on disk
    files,     \* the files on disk: pairs <<path, content>>, one per path
    workload,  \* what the clients of this run do: see Init
    partial,   \* history: the paths at which a download broke off after it had
               \* written chunks, leaving its file there
    running,   \* the coroutine the event loop is running, or "none"
    calls,     \* the tool invocations made so far
    sync       \* the invocation of a synchronous tool (import_asset,
               \* instantiate_prefab, create_prefab, apply_prefab): its arguments, locals,
               \* position, the commands it sent and what it returned

vars ==
    <<pc, arg, loc, bat, ret, bret, log, mark, dirs, files, workload, partial, running,
      calls, sync>>

NoArg == [url |-> <<>>, target_path |-> <<>>, overwrite |-> FALSE, temp_download |-> FALSE]

NoLoc ==
    [target_path |-> <<>>, temp_dir |-> NoDir, filename |-> <<>>,
     download_path |-> PathJoin(NoDir, <<>>), download_success |-> FALSE,
     handle |-> "none", chunks |-> 0, pos |-> 0, buf |-> <<>>, response |-> "none", listed |-> {},
     cleanup |-> "none", unity |-> "none"]

NoBat ==
    [on |-> FALSE, urls |-> <<>>, urls_type |-> "list", target_folder |-> <<>>,
     overwrite |-> FALSE, i |-> 0, results |-> <<>>]

\* No synchronous tool is invoked.  `name` is source_path or object_name,
\* `path` is target_path or prefab_path as the code has it at that line,
\* `given` is that argument as passed, `listed` the paths GET_ASSET_LIST
\* returned, `log` the commands sent: records [cmd, path, overwrite].
NoSync ==
    [tool |-> "none", pc |-> "idle", name |-> <<>>, given |-> <<>>, path |-> <<>>,
     overwrite |-> FALSE, position |-> <<>>, listed |-> {}, log |-> <<>>,
     ret |-> "none"]

\* One collaborator call and how it went: send_command(cmd, ...) and whether
\* it answered well, download_file entered ("download_start") and what it
\* returned ("download_end"), os.path.exists(...) and what it returned
\* ("exists"); `item` is filled in by Logged.
Event(cmd, src, tgt, ow, ok) ==
    [cmd |-> cmd, src |-> src, tgt |-> tgt, ow |-> ow, ok |-> ok, item |-> 0]

\* The server has started and no tool has been invoked; the persistent cache
\* directory is there or not (where the tools of the workload can use it).  Four workloads are explored:
\*   "overlapping"  every coroutine of Req runs one import_remote_asset, and
\*                  they may overlap in time;
\*   "sequential"   one client makes up to MaxCalls import_remote_asset calls,
\*                  each after the one before has returned;
\*   "batch"        one client makes one batch_import_remote_assets call;
\*   "sync"         one client makes up to MaxCalls calls of the synchronous
\*                  tools, each after the one before has returned.
Init ==
    /\ pc = [r \in Req |-> "idle"]
    /\ arg = [r \in Req |-> NoArg]
    /\ loc = [r \in Req |-> NoLoc]
    /\ bat = [r \in Req |-> NoBat]
    /\ ret = [r \in Req |-> "none"]
    /\ bret = [r \in Req |-> [kind |-> "none", lines |-> <<>>]]
    /\ log = [r \in Req |-> <<>>]
    /\ mark = [r \in Req |-> 0]
    /\ workload \in {"overlapping", "sequential", "batch", "sync"}
    /\ dirs \in IF workload \in {"overlapping", "sequential"}
                THEN {{}, {CacheDir}} ELSE {{}}
    /\ files = {}
    /\ partial = {}
    /\ running = "none"
    /\ calls = 0
    /\ sync = NoSync

\* Faulty variant of MakeDirs: nothing is made.
MakeNoDirs(ds, directory) == ds

\* os.makedirs(directory, exist_ok=True), and the directory mkdtemp makes:
\* the directories on disk afterwards.
MakeDirs(ds, directory) == ds \cup {directory}

\* tempfile.mkdtemp(): a directory that was not there.
FreshTempDir ==
    TempDir(CHOOSE n \in 0..Cardinality(dirs) :
                /\ TempDir(n) \notin dirs
                /\ \A k \in 0..(n - 1) : TempDir(k) \in dirs)

\* ------------------------------------------------------------ control flow
\* The coroutine goes on at `to`; `run` says whether it keeps the event loop
\* (straight-line code) or gives it up (an await that suspends).
Goto(r, to, run) ==
    /\ pc' = [pc EXCEPT ![r] = to]
    /\ running' = IF run THEN r ELSE "none"
    /\ UNCHANGED <<ret, bret>>

\* `return status` of import_remote_asset: to the caller of the tool, or to
\* batch_import_remote_assets at line 429 when that made the invocation.
Return(r, status) ==
    /\ ret' = [ret EXCEPT ![r] = status]
    /\ pc' = [pc EXCEPT ![r] = IF bat[r].on THEN "b_append" ELSE "done"]
    /\ running' = IF bat[r].on THEN r ELSE "none"
    /\ UNCHANGED bret

\* An exception raised outside every try of the tool: it ends the coroutine
\* and reaches the caller of the tool; nothing is returned.
Escape(r) ==
    /\ pc' = [pc EXCEPT ![r] = "raised"]
    /\ running' = "none"
    /\ UNCHANGED <<ret, bret>>

\* An exception raised inside the try of import_remote_asset: lines 390-391
\* turn it into a returned string.
Raise(r) == Return(r, "exception")

\* The log of r with one more collaborator call, made for the item of the
\* batch that r is at (0 outside a batch).
Logged(r, e) ==
    [log EXCEPT ![r] = Append(@, [e EXCEPT !.item = IF bat[r].on THEN bat[r].i + 1 ELSE 0])]

\* The collaborator calls of r's current import_remote_asset invocation.
CallLog(r) == SubSeq(log[r], mark[r] + 1, Len(log[r]))

\* -------------------------------------------------------- the two tool calls
\* The event loop can start a coroutine: none is running, and every result
\* returned so far has been handed to its client.
Startable == running = "none" /\ \A q \in Req : pc[q] # "done"

\* A client invokes import_remote_asset(ctx, url, target_path, overwrite,
\* temp_download): the event loop starts the coroutine.
ImportCall(r) ==
    /\ pc[r] = "idle"
    /\ Startable
    /\ workload \in {"overlapping", "sequential"}
    /\ workload = "sequential" => r = FirstReq /\ calls < MaxCalls
    /\ workload = "overlapping" => calls < Cardinality(Req)
    /\ \E a \in (IF workload = "overlapping" THEN OverlapArgs ELSE SequentialArgs) :
          arg' = [arg EXCEPT ![r] = a]
    /\ loc' = [loc EXCEPT ![r] = NoLoc]
    /\ bat' = [bat EXCEPT ![r] = NoBat]
    /\ ret' = [ret EXCEPT ![r] = "none"]
    /\ bret' = [bret EXCEPT ![r] = [kind |-> "none", lines |-> <<>>]]
    /\ log' = [log EXCEPT ![r] = <<>>]
    /\ mark' = [mark EXCEPT ![r] = 0]
    /\ pc' = [pc EXCEPT ![r] = "enter"]
    /\ running' = r
    /\ calls' = calls + 1
    /\ UNCHANGED <<dirs, files, workload, partial, sync>>

\* Lines 318-326: get_unity_connection() and the validation of url and
\* target_path.
Validate(r) ==
    /\ pc[r] = "enter"
    /\ running = r
    /\ \E connected \in BOOLEAN :
          /\ loc' = [loc EXCEPT ![r].unity = IF connected THEN "connected" ELSE "refused"]
          /\ IF ~connected THEN Raise(r)
             ELSE IF ~Truthy(arg[r].url) \/ ~IsStr(arg[r].url) THEN Return(r, "bad_url")
             ELSE IF ~Truthy(arg[r].target_path) \/ ~IsStr(arg[r].target_path)
                  THEN Return(r, "bad_target")
             ELSE Goto(r, "list", TRUE)
    /\ UNCHANGED <<arg, bat, log, mark, dirs, files, workload, partial, sync, calls>>

\* What send_command("GET_ASSET_LIST", ...) can answer for a target path:
\* it raises, or it returns the paths of some assets.
ListAnswers(raw, target_path) ==
    {[raises |-> TRUE, paths |-> {}]}
        \cup {[raises |-> FALSE, paths |-> P] : P \in SUBSET {raw, target_path, OtherAsset}}

\* any(asset.get("path") == target_path for asset in existing_assets)
AssetExists(paths, target_path) == target_path \in paths

\* Faulty variant of SkipsDownload: the overwrite flag is read the wrong way.
SkipsWhenOverwrite(asset_exists, overwrite) == asset_exists /\ overwrite

\* Line 343: asset_exists and not overwrite
SkipsDownload(asset_exists, overwrite) == asset_exists /\ ~overwrite

\* Lines 328-344: the target path is normalized, the assets at it are listed
\* and an existing asset ends the call unless overwrite is set.
ListAssets(r) ==
    /\ pc[r] = "list"
    /\ running = r
    /\ LET target_path == NormalizeTarget(arg[r].target_path)
       IN  \E answer \in ListAnswers(arg[r].target_path, target_path) :
              /\ loc' = [loc EXCEPT ![r].target_path = target_path,
                                    ![r].listed = answer.paths]
              /\ log' = Logged(r, Event("GET_ASSET_LIST", PathJoin(NoDir, <<>>), target_path,
                                        FALSE, ~answer.raises))
              /\ IF answer.raises THEN Raise(r)
                 ELSE IF SkipsDownload(AssetExists(answer.paths, target_path), arg[r].overwrite)
                      THEN Return(r, "exists")
                 ELSE Goto(r, "resolve", TRUE)
    /\ UNCHANGED <<arg, bat, mark, dirs, files, workload, partial, sync, calls>>

\* Faulty variant of Awaited: the batch loop goes on to its next line while
\* the download of the item is still under way.
NotAwaited(r, to) == IF bat[r].on THEN "b_append" ELSE to

\* Lines 363 and 422: `await`; the caller stands still until the awaited
\* coroutine, which goes on at `to`, has returned.
Awaited(r, to) == to

\* Lines 346-363 and 281: the download path is resolved (a new temporary
\* directory, or the persistent cache directory made if missing), and
\* download_file is entered: it makes the directory of the path if missing
\* and suspends on opening the HTTP stream.
\* mkdtemp and makedirs raise when the file system refuses.
ResolveTarget(r) ==
    /\ pc[r] = "resolve"
    /\ running = r
    /\ \E refused \in BOOLEAN :
          IF refused
          THEN /\ Raise(r)
               /\ UNCHANGED <<loc, log, dirs>>
          ELSE LET filename == FilenameFromUrl(arg[r].url)
                   directory == IF arg[r].temp_download THEN FreshTempDir ELSE CacheDir
               IN  /\ dirs' = MakeDirs(MakeDirs(dirs, directory),
                                       DirName(PathJoin(directory, filename)))
                   /\ loc' = [loc EXCEPT ![r].temp_dir = IF arg[r].temp_download THEN directory ELSE NoDir,
                                         ![r].filename = filename,
                                         ![r].download_path = PathJoin(directory, filename),
                                         ![r].listed = {}]
                   /\ log' = Logged(r, Event("download_start", PathJoin(directory, filename),
                                             loc[r].target_path, arg[r].overwrite, TRUE))
                   /\ Goto(r, Awaited(r, "dl_connect"), FALSE)
    /\ UNCHANGED <<arg, bat, mark, files, workload, partial, sync, calls>>

\* ------------------------------------------------------------ files on disk
\* os.path.exists(path); a path with an empty file name is its directory.
Exists(path) ==
    IF path[2] = <<>> THEN DirName(path) \in dirs
    ELSE \E f \in files : f[1] = path

\* One byte of a file: the k-th byte of the body that coroutine w was
\* downloading.  `st` tells what became of that download since: "live"
\* while its file handle is open, "done" once the stream ended, "broken"
\* once it broke off.
Byte(w, k) == [w |-> w, k |-> k, st |-> "live"]

\* A byte no writer wrote: the gap a write beyond the end of a file leaves.
Hole == [w |-> "none", k |-> 0, st |-> "hole"]

\* The bytes of the file at path.
Content(path) == (CHOOSE f \in files : f[1] = path)[2]

\* The files once the file at path holds `content`.
Written(path, content) == {f \in files : f[1] # path} \cup {<<path, content>>}

\* The files once the file at path is unlinked.
Removed(path) == {f \in files : f[1] # path}

\* write(2) of `data` at offset pos of a file holding `bytes`: the bytes
\* under it are replaced, the bytes after it stay, a gap before it is holes.
WriteAt(bytes, pos, data) ==
    IF data = <<>> THEN bytes
    ELSE [i \in 1..(IF Len(bytes) > pos + Len(data) THEN Len(bytes) ELSE pos + Len(data)) |->
             IF i > pos /\ i <= pos + Len(data) THEN data[i - pos]
             ELSE IF i <= Len(bytes) THEN bytes[i]
             ELSE Hole]

\* The bytes with those that w wrote through its open handle marked `st`.
Settled(bytes, w, st) ==
    [i \in DOMAIN bytes |->
        IF bytes[i].w = w /\ bytes[i].st = "live" THEN [bytes[i] EXCEPT !.st = st]
        ELSE bytes[i]]

\* The files once the handle of r has written `data` at its offset; a
\* handle whose file was unlinked writes to a file no path names.
Flushed(r, data) ==
    IF loc[r].handle = "open"
    THEN Written(loc[r].download_path,
                 WriteAt(Content(loc[r].download_path), loc[r].pos, data))
    ELSE files

\* The files once the handle of r is closed: what its buffer holds is
\* written at its offset, and its download is over as `st` says.
FlushedAndClosed(r, st) ==
    IF loc[r].handle = "open"
    THEN Written(loc[r].download_path,
                 Settled(WriteAt(Content(loc[r].download_path), loc[r].pos, loc[r].buf),
                         r, st))
    ELSE files

\* The file at path holds bytes of a download that broke off.
HoldsBrokenBytes(path) ==
    /\ \E f \in files : f[1] = path
    /\ \E i \in DOMAIN Content(path) : Content(path)[i].st = "broken"

\* The buffer of the file object open(target_path, 'wb') returns holds this
\* many bytes (io.DEFAULT_BUFFER_SIZE, in the unit of ChunkLens).
BufSize == 2

\* The sizes of the chunks a stream yields: shorter than the buffer, as long
\* as it, longer.  Where no two calls are in flight together the size of a
\* chunk makes no difference to what a call finds on disk, and one size is
\* explored.
ChunkLens == IF workload = "overlapping" THEN {1, 2, 3} ELSE {1}

\* The chunks a stream yields before its end, at most: likewise, one chunk
\* stands for any number of them where no two calls are in flight together.
StreamLen == IF workload = "overlapping" THEN MaxChunks ELSE 1

\* The coroutines other than r that hold the file at path open for writing.
OtherWriters(r, path) ==
    {q \in Req \ {r} : loc[q].download_path = path /\ loc[q].handle = "open"}

\* ------------------------------------------------------------ download_file
\* Lines 284-287: the HTTP stream is opened; a connection error or a
\* non-2xx status raises, and so does open() on a path that names a
\* directory.  Otherwise open(target_path, 'wb') makes the file or truncates
\* it, whoever else has it open, and the coroutine waits for the first chunk
\* with a handle at offset 0 and an empty buffer.
DlConnect(r) ==
    /\ pc[r] = "dl_connect"
    /\ running = "none"
    /\ \E status_ok \in BOOLEAN :
          IF ~status_ok \/ loc[r].filename = <<>>
          THEN /\ loc' = [loc EXCEPT ![r].download_success = FALSE]
               /\ files' = files
               /\ Goto(r, "dl_closing", FALSE)
          ELSE /\ files' = Written(loc[r].download_path, <<>>)
               /\ loc' = [loc EXCEPT ![r].handle = "open", ![r].chunks = 0,
                                     ![r].pos = 0, ![r].buf = <<>>]
               /\ Goto(r, "dl_stream", FALSE)
    /\ UNCHANGED <<arg, bat, log, mark, dirs, workload, partial, sync, calls>>

\* Lines 288-289: a chunk arrives and f.write(chunk) takes it.  The file
\* object is buffered: a chunk that fits in what is free of the buffer is
\* kept there; otherwise the buffer is written to disk at the handle's
\* offset, and the chunk after it when it is longer than the buffer, while a
\* chunk no longer than the buffer is kept in the emptied buffer.
DlChunk(r) ==
    /\ pc[r] = "dl_stream"
    /\ running = "none"
    /\ loc[r].chunks < StreamLen
    /\ \E n \in ChunkLens :
          LET sofar == loc[r].pos + Len(loc[r].buf)
              chunk == [i \in 1..n |-> Byte(r, sofar + i)]
          IN  IF n <= BufSize - Len(loc[r].buf)
              THEN /\ loc' = [loc EXCEPT ![r].chunks = @ + 1, ![r].buf = @ \o chunk]
                   /\ files' = files
              ELSE IF n > BufSize
              THEN /\ loc' = [loc EXCEPT ![r].chunks = @ + 1, ![r].buf = <<>>,
                                         ![r].pos = sofar + n]
                   /\ files' = Flushed(r, loc[r].buf \o chunk)
              ELSE /\ loc' = [loc EXCEPT ![r].chunks = @ + 1, ![r].buf = chunk,
                                         ![r].pos = sofar]
                   /\ files' = Flushed(r, loc[r].buf)
    /\ Goto(r, "dl_stream", FALSE)
    /\ UNCHANGED <<arg, bat, log, mark, dirs, workload, partial, sync, calls>>

\* Lines 287-288 and 291-293: the stream breaks after the file was opened;
\* leaving the `with` closes the file, which writes the buffer out; the
\* exception is caught, the file stays on disk, False will be returned.
DlAbort(r) ==
    /\ pc[r] = "dl_stream"
    /\ running = "none"
    /\ files' = FlushedAndClosed(r, "broken")
    /\ partial' = IF loc[r].chunks > 0 /\ loc[r].handle = "open"
                  THEN partial \cup {loc[r].download_path}
                  ELSE partial
    /\ loc' = [loc EXCEPT ![r].download_success = FALSE, ![r].handle = "none",
                          ![r].chunks = 0, ![r].pos = 0, ![r].buf = <<>>]
    /\ Goto(r, "dl_closing", FALSE)
    /\ UNCHANGED <<arg, bat, log, mark, dirs, workload, sync, calls>>

\* Lines 287-290: the stream ends; leaving the `with` closes the file, which
\* writes the buffer out; True will be returned.
DlEof(r) ==
    /\ pc[r] = "dl_stream"
    /\ running = "none"
    /\ files' = FlushedAndClosed(r, "done")
    /\ loc' = [loc EXCEPT ![r].download_success = TRUE, ![r].handle = "none",
                          ![r].chunks = 0, ![r].pos = 0, ![r].buf = <<>>]
    /\ Goto(r, "dl_closing", FALSE)
    /\ UNCHANGED <<arg, bat, log, mark, dirs, workload, partial, sync, calls>>

\* Lines 284-285 and 290-293: the stream and the client are closed.  After a
\* success download_file returns True into import_remote_asset at line 363.
\* After a failure the handler prints the error (line 292) before it returns
\* False: print writes to the standard output of the server and raises when
\* that cannot take the message (an encoding that lacks its characters, a
\* closed pipe); the exception then leaves download_file in place of a
\* returned value and is caught at line 390.
DlClose(r) ==
    /\ pc[r] = "dl_closing"
    /\ running = "none"
    /\ \E printed \in BOOLEAN :
          IF loc[r].download_success \/ printed
          THEN /\ log' = Logged(r, Event("download_end", loc[r].download_path,
                                         loc[r].target_path, arg[r].overwrite,
                                         loc[r].download_success))
               /\ Goto(r, "check", TRUE)
          ELSE /\ log' = log
               /\ Raise(r)
    /\ UNCHANGED <<arg, loc, bat, mark, dirs, files, workload, partial, sync, calls>>

\* ------------------------------------------- import_remote_asset, continued
\* Faulty variant of DownloadFailed: what download_file returned is not
\* looked at.
DownloadNeverFailed(download_success) == FALSE

\* Line 364: not download_success
DownloadFailed(download_success) == ~download_success

\* Lines 363-365: a failed download ends the call.
CheckDownload(r) ==
    /\ pc[r] = "check"
    /\ running = r
    /\ IF DownloadFailed(loc[r].download_success)
       THEN Return(r, "download_failed")
       ELSE Goto(r, "exists", TRUE)
    /\ UNCHANGED <<arg, loc, bat, log, mark, dirs, files, workload, partial, sync, calls>>

\* Another process of the machine unlinks the downloaded file while the
\* call stands between the download and the removal of the file.
FsRace(r) ==
    /\ pc[r] \in {"exists", "cleanup"}
    /\ loc[r].filename # <<>>
    /\ Exists(loc[r].download_path)
    /\ files' = Removed(loc[r].download_path)
    /\ loc' = [q \in Req |->
                 IF q \in OtherWriters(r, loc[r].download_path)
                 THEN [loc[q] EXCEPT !.handle = "unlinked"]
                 ELSE loc[q]]
    /\ UNCHANGED <<pc, arg, bat, ret, bret, log, mark, dirs, workload, partial, sync, running, calls>>

\* Lines 367-369: the downloaded file must be there.
CheckExists(r) ==
    /\ pc[r] = "exists"
    /\ running = r
    /\ log' = Logged(r, Event("exists", loc[r].download_path, loc[r].target_path,
                              arg[r].overwrite, Exists(loc[r].download_path)))
    /\ IF ~Exists(loc[r].download_path)
       THEN Return(r, "file_missing")
       ELSE Goto(r, "import", TRUE)
    /\ UNCHANGED <<arg, loc, bat, mark, dirs, files, workload, partial, sync, calls>>

\* Lines 371-376: send_command("IMPORT_ASSET", ...) answers success, answers
\* failure, or raises.
SendImport(r) ==
    /\ pc[r] = "import"
    /\ running = r
    /\ \E answer \in {"success", "failure", "raises"} :
          /\ log' = Logged(r, Event("IMPORT_ASSET", loc[r].download_path, loc[r].target_path,
                                    arg[r].overwrite, answer = "success"))
          /\ IF answer = "raises"
             THEN /\ Raise(r)
                  /\ loc' = loc
             ELSE /\ loc' = [loc EXCEPT ![r].response = answer]
                  /\ Goto(r, "cleanup", TRUE)
    /\ UNCHANGED <<arg, bat, mark, dirs, files, workload, partial, sync, calls>>

\* Lines 378-384: with temp_download, os.remove(download_path) and then
\* os.rmdir(temp_dir) in one try; the first that raises ends the cleanup
\* silently.  os.remove raises when the file is not there, os.rmdir when the
\* directory is not empty, and either may be refused by the file system.
\* loc.cleanup records how it went: "skipped", "done" or "raised".
Cleanup(r) ==
    /\ pc[r] = "cleanup"
    /\ running = r
    /\ IF ~arg[r].temp_download
       THEN /\ loc' = [loc EXCEPT ![r].cleanup = "skipped"]
            /\ UNCHANGED <<files, dirs>>
       ELSE \E refused \in {"none", "remove", "rmdir"} :
            IF refused = "remove" \/ ~Exists(loc[r].download_path)
            THEN /\ loc' = [loc EXCEPT ![r].cleanup = "raised"]
                 /\ UNCHANGED <<files, dirs>>
            ELSE /\ files' = Removed(loc[r].download_path)
                 /\ IF \/ refused = "rmdir"
                       \/ \E f \in Removed(loc[r].download_path) :
                              DirName(f[1]) = loc[r].temp_dir
                    THEN /\ dirs' = dirs
                         /\ loc' = [loc EXCEPT ![r].cleanup = "raised"]
                    ELSE /\ dirs' = dirs \ {loc[r].temp_dir}
                         /\ loc' = [loc EXCEPT ![r].cleanup = "done"]
    /\ Goto(r, "result", TRUE)
    /\ UNCHANGED <<arg, bat, log, mark, workload, partial, sync, calls>>

\* Faulty variant of ImportSucceeded: a cleanup that raised counts as a
\* failed import.
ImportSucceededIfCleaned(response, cleanup) ==
    response = "success" /\ cleanup # "raised"

\* Line 386: response.get("success", False); how the cleanup went plays no
\* part.
ImportSucceeded(response, cleanup) == response = "success"

\* Lines 386-389: the answer of IMPORT_ASSET decides the returned string.
Result(r) ==
    /\ pc[r] = "result"
    /\ running = r
    /\ IF ~ImportSucceeded(loc[r].response, loc[r].cleanup)
       THEN Return(r, "import_failed")
       ELSE Return(r, "imported")
    /\ UNCHANGED <<arg, loc, bat, log, mark, dirs, files, workload, partial, sync, calls>>

\* ----------------------------------------------- batch_import_remote_assets
\* One line of the batch result: f"[{i}/{n}] {label}: {result}".
Line(i, n, label, result) == [i |-> i, n |-> n, label |-> label, result |-> result]

\* Faulty variant of LoopNext: the loop ends at an item that did not import.
LoopUntilError(r, done) ==
    IF done < Len(bat[r].urls) /\ (done = 0 \/ ret[r] = "imported") THEN "b_item" ELSE "b_join"

\* Line 415: with `done` URLs behind it the for loop takes the next URL, or
\* ends and the lines are joined.
LoopNext(r, done) == IF done < Len(bat[r].urls) THEN "b_item" ELSE "b_join"

\* A client invokes batch_import_remote_assets(ctx, urls, target_folder,
\* overwrite).
BatchCall(r) ==
    /\ pc[r] = "idle"
    /\ Startable
    /\ workload = "batch"
    /\ r = FirstReq
    /\ calls = 0
    /\ \E urls \in UrlsArgs, a \in BatchArgs :
          bat' = [bat EXCEPT ![r] = [on |-> TRUE, urls |-> urls.items,
                                     urls_type |-> urls.type,
                                     target_folder |-> a.target_folder,
                                     overwrite |-> a.overwrite, i |-> 0, results |-> <<>>]]
    /\ arg' = [arg EXCEPT ![r] = NoArg]
    /\ loc' = [loc EXCEPT ![r] = NoLoc]
    /\ ret' = [ret EXCEPT ![r] = "none"]
    /\ bret' = [bret EXCEPT ![r] = [kind |-> "none", lines |-> <<>>]]
    /\ log' = [log EXCEPT ![r] = <<>>]
    /\ mark' = [mark EXCEPT ![r] = 0]
    /\ pc' = [pc EXCEPT ![r] = "b_enter"]
    /\ running' = r
    /\ calls' = calls + 1
    /\ UNCHANGED <<dirs, files, workload, partial, sync>>

\* Lines 411-415: a falsy urls is answered at once; otherwise the loop is
\* entered by enumerate(urls), which stands under no try.
BatchEnter(r) ==
    /\ pc[r] = "b_enter"
    /\ running = r
    /\ IF NothingToDo(bat[r].urls_type, bat[r].urls)
       THEN /\ bret' = [bret EXCEPT ![r] = [kind |-> "empty", lines |-> <<>>]]
            /\ pc' = [pc EXCEPT ![r] = "done"]
            /\ running' = "none"
            /\ ret' = ret
       ELSE IF ~Iterable(bat[r].urls_type)
       THEN Escape(r)
       ELSE Goto(r, LoopNext(r, 0), TRUE)
    /\ UNCHANGED <<arg, loc, bat, log, mark, dirs, files, workload, partial, sync, calls>>

\* Lines 415-427: the next URL's file name and target path are computed and
\* import_remote_asset is invoked with them (temp_download left at its
\* default, True); splitting a url that is no str raises.
BatchItem(r) ==
    /\ pc[r] = "b_item"
    /\ running = r
    /\ LET url == bat[r].urls[bat[r].i + 1]
       IN  IF ~IsStr(url)
           THEN /\ Goto(r, "b_except", TRUE)
                /\ UNCHANGED <<arg, loc, mark>>
           ELSE /\ arg' = [arg EXCEPT ![r] =
                              [url |-> url,
                               target_path |-> bat[r].target_folder \o <<"/">> \o FilenameFromUrl(url),
                               overwrite |-> bat[r].overwrite,
                               temp_download |-> TRUE]]
                /\ loc' = [loc EXCEPT ![r] = NoLoc]
                /\ mark' = [mark EXCEPT ![r] = Len(log[r])]
                /\ Goto(r, "enter", TRUE)
    /\ UNCHANGED <<bat, log, dirs, files, workload, partial, sync, calls>>

\* Line 429: the item's line is appended under the file name; len(urls) in
\* that line raises inside the try when urls has no length.
BatchAppend(r) ==
    /\ pc[r] = "b_append"
    /\ running = r
    /\ IF HasLen(bat[r].urls_type)
       THEN /\ bat' = [bat EXCEPT ![r].i = @ + 1,
                                  ![r].results = Append(@, Line(bat[r].i + 1, Len(bat[r].urls),
                                                                FilenameFromUrl(arg[r].url), ret[r]))]
            /\ Goto(r, LoopNext(r, bat[r].i + 1), TRUE)
       ELSE /\ bat' = bat
            /\ Goto(r, "b_except", TRUE)
    /\ UNCHANGED <<arg, loc, log, mark, dirs, files, workload, partial, sync, calls>>

\* Lines 430-431: an exception of the item is appended under the url;
\* len(urls) in that line stands in the handler, under no try, and what it
\* raises when urls has no length leaves the tool.
BatchExcept(r) ==
    /\ pc[r] = "b_except"
    /\ running = r
    /\ IF HasLen(bat[r].urls_type)
       THEN /\ bat' = [bat EXCEPT ![r].i = @ + 1,
                                  ![r].results = Append(@, Line(bat[r].i + 1, Len(bat[r].urls),
                                                                bat[r].urls[bat[r].i + 1], "error"))]
            /\ Goto(r, LoopNext(r, bat[r].i + 1), TRUE)
       ELSE /\ bat' = bat
            /\ Escape(r)
    /\ UNCHANGED <<arg, loc, log, mark, dirs, files, workload, partial, sync, calls>>

\* Line 433: the lines are joined and returned.
BatchReturn(r) ==
    /\ pc[r] = "b_join"
    /\ running = r
    /\ bret' = [bret EXCEPT ![r] = [kind |-> "lines", lines |-> bat[r].results]]
    /\ pc' = [pc EXCEPT ![r] = "done"]
    /\ running' = "none"
    /\ UNCHANGED <<arg, loc, bat, ret, log, mark, dirs, files, workload, partial, sync, calls>>

\* The client has the returned string; the coroutine is gone.
Deliver(r) ==
    /\ pc[r] = "done"
    /\ pc' = [pc EXCEPT ![r] = "idle"]
    /\ arg' = [arg EXCEPT ![r] = NoArg]
    /\ loc' = [loc EXCEPT ![r] = NoLoc]
    /\ bat' = [bat EXCEPT ![r] = NoBat]
    /\ ret' = [ret EXCEPT ![r] = "none"]
    /\ bret' = [bret EXCEPT ![r] = [kind |-> "none", lines |-> <<>>]]
    /\ log' = [log EXCEPT ![r] = <<>>]
    /\ mark' = [mark EXCEPT ![r] = 0]
    /\ UNCHANGED <<dirs, files, workload, partial, sync, running, calls>>

\* ------------------------------------------------------ synchronous tools
\* ".prefab"
PrefabSuffix == <<".", "p", "r", "e", "f", "a", "b">>

\* str.lower() of one character, over the letters the inputs use.
LowerChar(c) ==
    CASE c = "A" -> "a" [] c = "B" -> "b" [] c = "E" -> "e" [] c = "F" -> "f"
      [] c = "P" -> "p" [] c = "R" -> "r" [] OTHER -> c

\* str.lower()
Lower(s) == [k \in DOMAIN s |-> LowerChar(s[k])]

\* str.endswith
EndsWith(s, p) == Len(s) >= Len(p) /\ SubSeq(s, Len(s) - Len(p) + 1, Len(s)) = p

\* Lines 128-130 and 196-197: the path gets ".prefab" unless it ends with it
\* in any case of letters (the file name does exactly when the path does).
EnsurePrefabSuffix(prefab_path) ==
    IF EndsWith(Lower(prefab_path), PrefabSuffix) THEN prefab_path
    ELSE prefab_path \o PrefabSuffix

\* '/'.join(path.split('/')[:-1]) or "Assets"
FolderOrAssets(path) ==
    IF TargetDir(path) = <<>> THEN <<"A", "s", "s", "e", "t", "s">> ELSE TargetDir(path)

\* isinstance(v, (int, float)); the numbers of the inputs are ints.
IsNumber(v) == v = PyInt

\* The six position and rotation arguments: all numbers, or one of them
\* (the first, the last) not a number.
Positions ==
    {[k \in 1..6 |-> PyInt],
     [k \in 1..6 |-> IF k = 1 THEN PyNone ELSE PyInt],
     [k \in 1..6 |-> IF k = 6 THEN PyNone ELSE PyInt]}

\* source_path and object_name arguments.
Names == {<<"o">>, <<>>, PyInt}

\* prefab_path arguments: without the suffix, with it, with it in capitals,
\* without a folder, empty, not a str.
PrefabPaths ==
    {AssetsPrefix \o <<"p">>,
     AssetsPrefix \o <<"p">> \o PrefabSuffix,
     AssetsPrefix \o <<"p", ".", "P", "R", "E", "F", "A", "B">>,
     <<"p">>, <<>>, PyNone}

\* The invocations of the synchronous tools.
SyncArgs ==
    {[NoSync EXCEPT !.tool = "import_asset", !.pc = "enter", !.name = n, !.given = t,
                    !.path = t, !.overwrite = o] :
         n \in Names, t \in Targets, o \in BOOLEAN}
    \cup {[NoSync EXCEPT !.tool = "instantiate_prefab", !.pc = "enter", !.given = t,
                         !.path = t, !.position = q] :
         t \in PrefabPaths, q \in Positions}
    \cup {[NoSync EXCEPT !.tool = "create_prefab", !.pc = "enter", !.name = n, !.given = t,
                         !.path = t, !.overwrite = o] :
         n \in Names, t \in PrefabPaths, o \in BOOLEAN}
    \cup {[NoSync EXCEPT !.tool = "apply_prefab", !.pc = "enter", !.name = n] :
         n \in Names}

\* One command sent by a synchronous tool: send_command(cmd, ...) with the
\* path and overwrite flag in its parameters, and for GET_ASSET_LIST the
\* folder and pattern it asked for and the paths it was answered.
Sent(cmd, folder, pattern, paths) ==
    Append(sync.log, [cmd |-> cmd, path |-> sync.path, overwrite |-> sync.overwrite,
                      folder |-> folder, pattern |-> pattern, paths |-> paths])

\* `return` of a synchronous tool, the command log as given.
SyncReturn(status, sent) ==
    sync' = [sync EXCEPT !.pc = "done", !.ret = status, !.log = sent]

\* The synchronous tool goes on at `to`.
SyncGoto(to, sent) == sync' = [sync EXCEPT !.pc = to, !.log = sent]

\* What the program leaves alone while a synchronous tool runs.
SyncFrame ==
    UNCHANGED <<pc, arg, loc, bat, ret, bret, log, mark, dirs, files, workload, partial,
                running, calls>>

\* A client invokes import_asset, instantiate_prefab, create_prefab or
\* apply_prefab.
SyncCall ==
    /\ workload = "sync"
    /\ sync.pc = "idle"
    /\ calls < MaxCalls
    /\ \E a \in SyncArgs : sync' = a
    /\ calls' = calls + 1
    /\ UNCHANGED <<pc, arg, loc, bat, ret, bret, log, mark, dirs, files, workload, partial,
                   running>>

\* Line 60: asset_exists and not overwrite
AssetConflict(asset_exists, overwrite) == asset_exists /\ ~overwrite

\* Lines 33-46 of import_asset: get_unity_connection(), the validation of
\* source_path and target_path, and os.path.exists(source_path).
ImportAssetCheck ==
    /\ sync.tool = "import_asset"
    /\ sync.pc = "enter"
    /\ \E connected \in BOOLEAN, on_disk \in BOOLEAN :
          IF ~connected THEN SyncReturn("exception", sync.log)
          ELSE IF ~Truthy(sync.name) \/ ~IsStr(sync.name)
               THEN SyncReturn("bad_source", sync.log)
          ELSE IF ~Truthy(sync.path) \/ ~IsStr(sync.path)
               THEN SyncReturn("bad_target", sync.log)
          ELSE IF ~on_disk THEN SyncReturn("no_source", sync.log)
          ELSE SyncGoto("list", sync.log)
    /\ SyncFrame

\* Lines 48-61 of import_asset: GET_ASSET_LIST for the file name in the
\* folder of the target path; an asset at the target path ends the call
\* unless overwrite is set.
ImportAssetList ==
    /\ sync.tool = "import_asset"
    /\ sync.pc = "list"
    /\ \E answer \in ListAnswers(sync.given, sync.path) :
          LET sent == Sent("GET_ASSET_LIST", FolderOrAssets(sync.path),
                           TargetFilename(sync.path), answer.paths)
          IN  IF answer.raises THEN SyncReturn("exception", sent)
              ELSE IF AssetConflict(AssetExists(answer.paths, sync.path), sync.overwrite)
                   THEN sync' = [sync EXCEPT !.pc = "done", !.ret = "exists", !.log = sent,
                                             !.listed = answer.paths]
              ELSE sync' = [sync EXCEPT !.pc = "send", !.log = sent,
                                        !.listed = answer.paths]
    /\ SyncFrame

\* Lines 63-74 of import_asset: IMPORT_ASSET and the string made of its
\* answer.
ImportAssetSend ==
    /\ sync.tool = "import_asset"
    /\ sync.pc = "send"
    /\ \E answer \in {"success", "failure", "raises"} :
          SyncReturn(CASE answer = "success" -> "imported"
                       [] answer = "failure" -> "import_failed"
                       [] OTHER -> "exception",
                     Sent("IMPORT_ASSET", <<>>, <<>>, {}))
    /\ SyncFrame

\* The first of the six arguments that is not a number, 0 when all are.
FirstNotNumber(position) ==
    IF \A k \in DOMAIN position : IsNumber(position[k]) THEN 0
    ELSE CHOOSE k \in DOMAIN position :
            /\ ~IsNumber(position[k])
            /\ \A j \in 1..(k - 1) : IsNumber(position[j])

\* Lines 102-130 of instantiate_prefab: get_unity_connection(), the
\* validation of prefab_path and of the six numbers, and the ".prefab"
\* suffix.
InstantiateCheck ==
    /\ sync.tool = "instantiate_prefab"
    /\ sync.pc = "enter"
    /\ \E connected \in BOOLEAN :
          IF ~connected THEN SyncReturn("exception", sync.log)
          ELSE IF ~Truthy(sync.path) \/ ~IsStr(sync.path)
               THEN SyncReturn("bad_path", sync.log)
          ELSE IF FirstNotNumber(sync.position) # 0
               THEN SyncReturn("bad_number", sync.log)
          ELSE sync' = [sync EXCEPT !.pc = "list", !.path = EnsurePrefabSuffix(sync.path)]
    /\ SyncFrame

\* Line 139: not prefab_exists
PrefabMissing(prefab_exists) == ~prefab_exists

\* Lines 132-140 of instantiate_prefab: GET_ASSET_LIST for the prefab; the
\* call ends unless a returned entry has the prefab path.
InstantiateList ==
    /\ sync.tool = "instantiate_prefab"
    /\ sync.pc = "list"
    /\ \E answer \in ListAnswers(sync.given, sync.path) :
          LET sent == Sent("GET_ASSET_LIST", FolderOrAssets(sync.given),
                           EnsurePrefabSuffix(TargetFilename(sync.given)), answer.paths)
          IN  IF answer.raises THEN SyncReturn("exception", sent)
              ELSE IF PrefabMissing(AssetExists(answer.paths, sync.path))
                   THEN sync' = [sync EXCEPT !.pc = "done", !.ret = "not_found", !.log = sent,
                                             !.listed = answer.paths]
              ELSE sync' = [sync EXCEPT !.pc = "send", !.log = sent,
                                        !.listed = answer.paths]
    /\ SyncFrame

\* Lines 142-157 of instantiate_prefab: INSTANTIATE_PREFAB and the string
\* made of its answer.
InstantiateSend ==
    /\ sync.tool = "instantiate_prefab"
    /\ sync.pc = "send"
    /\ \E answer \in {"success", "failure", "raises"} :
          SyncReturn(CASE answer = "success" -> "instantiated"
                       [] answer = "failure" -> "instantiate_failed"
                       [] OTHER -> "exception",
                     Sent("INSTANTIATE_PREFAB", <<>>, <<>>, {}))
    /\ SyncFrame

\* Lines 177-185 of create_prefab: get_unity_connection() and the
\* validation of object_name and prefab_path.
CreateCheck ==
    /\ sync.tool = "create_prefab"
    /\ sync.pc = "enter"
    /\ \E connected \in BOOLEAN :
          IF ~connected THEN SyncReturn("exception", sync.log)
          ELSE IF ~Truthy(sync.name) \/ ~IsStr(sync.name)
               THEN SyncReturn("bad_object", sync.log)
          ELSE IF ~Truthy(sync.path) \/ ~IsStr(sync.path)
               THEN SyncReturn("bad_path", sync.log)
          ELSE SyncGoto("find", sync.log)
    /\ SyncFrame

\* Lines 187-197 of create_prefab: FIND_OBJECTS_BY_NAME; the call ends when
\* no object has the name; then the ".prefab" suffix.
CreateFind ==
    /\ sync.tool = "create_prefab"
    /\ sync.pc = "find"
    /\ \E answer \in {"found", "none", "raises"} :
          LET sent == Sent("FIND_OBJECTS_BY_NAME", <<>>, <<>>, {})
          IN  CASE answer = "raises" -> SyncReturn("exception", sent)
                [] answer = "none" -> SyncReturn("no_object", sent)
                [] OTHER -> sync' = [sync EXCEPT !.pc = "list", !.log = sent,
                                                 !.path = EnsurePrefabSuffix(sync.path)]
    /\ SyncFrame

\* Faulty variant of PrefabConflict: an existing prefab is no obstacle.
PrefabConflictIgnored(prefab_exists, overwrite) == FALSE

\* Line 210: prefab_exists and not overwrite
PrefabConflict(prefab_exists, overwrite) == prefab_exists /\ ~overwrite

\* Lines 199-211 of create_prefab: GET_ASSET_LIST for the prefab; a prefab
\* at the path ends the call unless overwrite is set.
CreateList ==
    /\ sync.tool = "create_prefab"
    /\ sync.pc = "list"
    /\ \E answer \in ListAnswers(sync.given, sync.path) :
          LET sent == Sent("GET_ASSET_LIST", FolderOrAssets(sync.path),
                           TargetFilename(sync.path), answer.paths)
          IN  IF answer.raises THEN SyncReturn("exception", sent)
              ELSE IF PrefabConflict(AssetExists(answer.paths, sync.path), sync.overwrite)
                   THEN sync' = [sync EXCEPT !.pc = "done", !.ret = "exists", !.log = sent,
                                             !.listed = answer.paths]
              ELSE sync' = [sync EXCEPT !.pc = "send", !.log = sent,
                                        !.listed = answer.paths]
    /\ SyncFrame

\* Lines 213-224 of create_prefab: CREATE_PREFAB and the string made of its
\* answer.
CreateSend ==
    /\ sync.tool = "create_prefab"
    /\ sync.pc = "send"
    /\ \E answer \in {"success", "failure", "raises"} :
          SyncReturn(CASE answer = "success" -> "created"
                       [] answer = "failure" -> "create_failed"
                       [] OTHER -> "exception",
                     Sent("CREATE_PREFAB", <<>>, <<>>, {}))
    /\ SyncFrame

\* Lines 240-249 of apply_prefab: get_unity_connection() and
\* FIND_OBJECTS_BY_NAME; the call ends when no object has the name.  The
\* name is not validated.
ApplyFind ==
    /\ sync.tool = "apply_prefab"
    /\ sync.pc = "enter"
    /\ \E connected \in BOOLEAN, answer \in {"found", "none", "raises"} :
          LET sent == Sent("FIND_OBJECTS_BY_NAME", <<>>, <<>>, {})
          IN  IF ~connected THEN SyncReturn("exception", sync.log)
              ELSE CASE answer = "raises" -> SyncReturn("exception", sent)
                     [] answer = "none" -> SyncReturn("no_object", sent)
                     [] OTHER -> SyncGoto("props", sent)
    /\ SyncFrame

\* Lines 251-259 of apply_prefab: GET_OBJECT_PROPERTIES; the call ends
\* unless the answer has a true isPrefabInstance.
ApplyProps ==
    /\ sync.tool = "apply_prefab"
    /\ sync.pc = "props"
    /\ \E answer \in {"instance", "no_instance", "raises"} :
          LET sent == Sent("GET_OBJECT_PROPERTIES", <<>>, <<>>, {})
          IN  CASE answer = "raises" -> SyncReturn("exception", sent)
                [] answer = "no_instance" -> SyncReturn("not_instance", sent)
                [] OTHER -> SyncGoto("send", sent)
    /\ SyncFrame

\* Lines 261-266 of apply_prefab: APPLY_PREFAB; the message of its answer
\* is returned whatever its success field says.
ApplySend ==
    /\ sync.tool = "apply_prefab"
    /\ sync.pc = "send"
    /\ \E answer \in {"success", "failure", "raises"} :
          SyncReturn(IF answer = "raises" THEN "exception" ELSE "applied",
                     Sent("APPLY_PREFAB", <<>>, <<>>, {}))
    /\ SyncFrame

\* The client has the string the synchronous tool returned.
SyncDeliver ==
    /\ sync.pc = "done"
    /\ sync' = NoSync
    /\ SyncFrame

\* ------------------------------------------------------------ specification
Next ==
    \/ \E r \in Req :
        \/ ImportCall(r)
        \/ Validate(r)
        \/ ListAssets(r)
        \/ ResolveTarget(r)
        \/ DlConnect(r)
        \/ DlChunk(r)
        \/ DlAbort(r)
        \/ DlEof(r)
        \/ DlClose(r)
        \/ CheckDownload(r)
        \/ FsRace(r)
        \/ CheckExists(r)
        \/ SendImport(r)
        \/ Cleanup(r)
        \/ Result(r)
        \/ BatchCall(r)
        \/ BatchEnter(r)
        \/ BatchItem(r)
        \/ BatchAppend(r)
        \/ BatchExcept(r)
        \/ BatchReturn(r)
        \/ Deliver(r)
    \/ SyncCall
    \/ ImportAssetCheck
    \/ ImportAssetList
    \/ ImportAssetSend
    \/ InstantiateCheck
    \/ InstantiateList
    \/ InstantiateSend
    \/ CreateCheck
    \/ CreateFind
    \/ CreateList
    \/ CreateSend
    \/ ApplyFind
    \/ ApplyProps
    \/ ApplySend
    \/ SyncDeliver

Spec == Init /\ [][Next]_vars

\* ------------------------------------------------------- what the claims use
\* import_remote_asset has returned: to the client, or to the batch.
ImportReturned(r) == (pc[r] = "done" /\ ~bat[r].on) \/ pc[r] = "b_append"

\* A target path rooted under "Assets/".
Rooted(target_path) ==
    IF StartsWith(target_path, AssetsPrefix) THEN target_path
    ELSE AssetsPrefix \o target_path

\* The current import_remote_asset of r made the collaborator call cmd.
Called(r, cmd) == \E i \in DOMAIN CallLog(r) : CallLog(r)[i].cmd = cmd

\* GET_ASSET_LIST answered r with an asset at the normalized target path.
ListedAtTarget(r) == Rooted(arg[r].target_path) \in loc[r].listed

\* The strings import_remote_asset returns.
Statuses ==
    {"bad_url", "bad_target", "exists", "download_failed", "file_missing",
     "import_failed", "imported", "exception"}

\* r has resolved its download path and has not returned since.
OwnsTarget(r) ==
    pc[r] \in {"dl_connect", "dl_stream", "dl_closing", "check", "exists", "import", "cleanup"}

\* ------------------------------------------------------------------- claims
\* C1: when GET_ASSET_LIST answers with an entry at the normalized target
\* path and overwrite is false, import_remote_asset returns "exists" in that
\* same step, having made no collaborator call but GET_ASSET_LIST, and the
\* directories and files on disk are as before; so at every call, repeated
\* or not.
C1_ExistingAssetSkipsDownload ==
    [][\A r \in Req :
          (pc[r] = "list" /\ pc'[r] # "list" /\ ~arg[r].overwrite /\ ListedAtTarget(r)')
              => /\ ImportReturned(r)'
                 /\ ret'[r] = "exists"
                 /\ dirs' = dirs
                 /\ files' = files
                 /\ Len(CallLog(r)') = 1
                 /\ CallLog(r)'[1].cmd = "GET_ASSET_LIST"]_vars

\* C1 witness: the second call of a client ended on an asset listed at the
\* normalized path of a target given without "Assets/".
C1_Witness ==
    \E r \in Req :
        /\ workload = "sequential" /\ calls = 2
        /\ pc[r] = "done" /\ ret[r] = "exists"
        /\ ~arg[r].overwrite /\ ListedAtTarget(r)
        /\ ~StartsWith(arg[r].target_path, AssetsPrefix)

\* C2: once an import_remote_asset call with temp_download has returned, the
\* temporary directory it made is gone, however the call ended.
C2_TempDirGoneAfterReturn ==
    \A r \in Req :
        (ImportReturned(r) /\ arg[r].temp_download /\ loc[r].temp_dir # NoDir)
            => loc[r].temp_dir \notin dirs

\* C3 as stated: after every import_remote_asset call with
\* temp_download=false the persistent cache directory exists.
C3_CacheDirAfterEveryCall ==
    \A r \in Req :
        (ImportReturned(r) /\ ~arg[r].temp_download) => CacheDir \in dirs

\* C3 as amended: after every import_remote_asset call with
\* temp_download=false that got as far as entering download_file, the
\* persistent cache directory exists, and no step ever deletes it.
C3_CacheDirAfterDownloadStep ==
    /\ [](\A r \in Req :
            (ImportReturned(r) /\ ~arg[r].temp_download /\ Called(r, "download_start"))
                => CacheDir \in dirs)
    /\ [][(CacheDir \in dirs) => (CacheDir \in dirs')]_vars

\* C3 witness: a call into the cache directory returned after its download
\* failed, and the directory is there.
C3_Witness ==
    \E r \in Req :
        /\ ImportReturned(r) /\ ~arg[r].temp_download
        /\ Called(r, "download_start")
        /\ ret[r] = "download_failed"
        /\ CacheDir \in dirs

\* C4: no call of import_remote_asset or batch_import_remote_assets ends by
\* an exception reaching its caller, whatever the arguments and whatever
\* fails; each ends by returning its string.
C4_NoExceptionEscapes ==
    \A r \in Req :
        /\ pc[r] # "raised"
        /\ pc[r] = "b_append" => ret[r] \in Statuses
        /\ (pc[r] = "done" /\ ~bat[r].on) => ret[r] \in Statuses
        /\ (pc[r] = "done" /\ bat[r].on) => bret[r].kind \in {"empty", "lines"}

\* The download of item k of r's batch failed.
ItemDownloadFailed(r, k) ==
    \E i \in DOMAIN log[r] :
        log[r][i].item = k /\ log[r][i].cmd = "download_end" /\ ~log[r][i].ok

\* The download of item k of r's batch failed and download_file raised
\* on the way out, returning nothing.
ItemDownloadRaised(r, k) ==
    /\ \E i \in DOMAIN log[r] : log[r][i].item = k /\ log[r][i].cmd = "download_start"
    /\ \A i \in DOMAIN log[r] : log[r][i].item = k => log[r][i].cmd # "download_end"

\* Item j of r's batch was downloaded and IMPORT_ASSET answered success.
ItemImported(r, j) ==
    \E i \in DOMAIN log[r] :
        log[r][i].item = j /\ log[r][i].cmd = "IMPORT_ASSET" /\ log[r][i].ok

\* C5: a batch of N >= 1 URLs returns N lines, line i numbered i of N and
\* labelled with the file name of the i-th URL (with the URL itself when it
\* could not be split); when the download of item k failed and every other
\* item was imported, line k reports the failed download (the exception,
\* when download_file raised while reporting the failure) and every other
\* line the import.
C5_BatchLines ==
    \A r \in Req :
        (pc[r] = "done" /\ bat[r].on /\ Len(bat[r].urls) >= 1)
            => LET n == Len(bat[r].urls)
                   lines == bret[r].lines
               IN  /\ bret[r].kind = "lines"
                   /\ Len(lines) = n
                   /\ \A i \in 1..n :
                         /\ lines[i].i = i
                         /\ lines[i].n = n
                         /\ lines[i].label =
                               IF IsStr(bat[r].urls[i]) THEN FilenameFromUrl(bat[r].urls[i])
                               ELSE bat[r].urls[i]
                   /\ \A k \in 1..n :
                         (ItemDownloadFailed(r, k)
                             /\ \A j \in (1..n) \ {k} : ItemImported(r, j))
                          => /\ lines[k].result = "download_failed"
                             /\ \A j \in (1..n) \ {k} : lines[j].result = "imported"
                   /\ \A k \in 1..n :
                         (ItemDownloadRaised(r, k)
                             /\ \A j \in (1..n) \ {k} : ItemImported(r, j))
                          => /\ lines[k].result = "exception"
                             /\ \A j \in (1..n) \ {k} : lines[j].result = "imported"

\* C5 witness: a batch of two different URLs whose first download failed and
\* whose second item was imported.
C5_Witness ==
    \E r \in Req :
        /\ pc[r] = "done" /\ bat[r].on /\ Len(bat[r].urls) = 2
        /\ bat[r].urls[1] # bat[r].urls[2]
        /\ ItemDownloadFailed(r, 1) /\ ItemImported(r, 2)
        /\ bret[r].lines[1].result = "download_failed"
        /\ bret[r].lines[2].result = "imported"

\* C6: batch_import_remote_assets with an empty list returns the fixed
\* "nothing to import" string in one step that makes no collaborator call
\* and leaves the directories and files on disk as they were.
C6_EmptyBatchDoesNothing ==
    [][\A r \in Req :
          (pc[r] = "b_enter" /\ bat[r].urls_type = "list" /\ Len(bat[r].urls) = 0
              /\ pc'[r] # "b_enter")
              => /\ pc'[r] = "done"
                 /\ bret'[r].kind = "empty"
                 /\ log'[r] = <<>>
                 /\ dirs' = dirs
                 /\ files' = files]_vars

\* C6 witness: a batch call with no URL has returned.
C6_Witness ==
    \E r \in Req :
        /\ pc[r] = "done" /\ bat[r].on
        /\ bat[r].urls_type = "list" /\ Len(bat[r].urls) = 0
        /\ bret[r].kind = "empty"
        /\ log[r] = <<>>

\* C7: the download file name computed by import_remote_asset, and the file
\* name a batch line is labelled with, is the last path segment of the URL
\* (of what precedes its first '?').
C7_FilenameIsLastPathSegment ==
    \A r \in Req :
        /\ OwnsTarget(r) => loc[r].filename = LastPathSegment(arg[r].url)
        /\ \A i \in DOMAIN bat[r].results :
              bat[r].results[i].result # "error"
                  => bat[r].results[i].label = LastPathSegment(bat[r].urls[i])

\* C8: a file that a download left behind when it broke off after writing
\* chunks is never taken for a valid download: a call that sends
\* IMPORT_ASSET with the path of such a file has before that, in the same
\* call, completed a download to that path that returned True; and a call
\* made after the failing one has returned imports a file that is there and
\* holds no byte the broken download wrote.
C8_PartialFileNotImported ==
    \A r \in Req :
        /\ \A i \in DOMAIN CallLog(r) :
              (CallLog(r)[i].cmd = "IMPORT_ASSET" /\ CallLog(r)[i].src \in partial)
                  => \E j \in 1..(i - 1) :
                        /\ CallLog(r)[j].cmd = "download_end"
                        /\ CallLog(r)[j].src = CallLog(r)[i].src
                        /\ CallLog(r)[j].ok
        /\ (workload # "overlapping" /\ pc[r] = "import"
                /\ loc[r].download_path \in partial)
               => /\ Exists(loc[r].download_path)
                  /\ ~HoldsBrokenBytes(loc[r].download_path)

\* C8 witness: a client's first call downloaded to the cache file until the
\* stream broke off, and returned; its second call has sent IMPORT_ASSET
\* with the path of that file and has returned that the asset is imported.
C8_Witness ==
    /\ workload = "sequential" /\ calls = 2
    /\ \E r \in Req :
          /\ pc[r] = "done" /\ ret[r] = "imported"
          /\ ~arg[r].temp_download
          /\ loc[r].download_path \in partial
          /\ \E i \in DOMAIN CallLog(r) :
                CallLog(r)[i].cmd = "IMPORT_ASSET"
                    /\ CallLog(r)[i].src = loc[r].download_path

\* C9: no two calls in flight hold the same download path.
C9_ExclusiveDownloadTarget ==
    \A r, q \in Req :
        (r # q /\ OwnsTarget(r) /\ OwnsTarget(q))
            => loc[r].download_path # loc[q].download_path

\* C10: within one import_remote_asset call IMPORT_ASSET is sent at most
\* once, as the fifth collaborator call after GET_ASSET_LIST, the entry of
\* download_file, its return of True and os.path.exists answering True; it
\* carries the download path, the target path rooted under "Assets/" and the
\* caller's overwrite flag; a call that returned a failed download or a
\* missing file sent none.
C10_ImportAfterDownload ==
    \A r \in Req :
        LET calllog == CallLog(r)
        IN  /\ \A i \in DOMAIN calllog :
                  calllog[i].cmd = "IMPORT_ASSET"
                      => /\ i = 5
                         /\ calllog[1].cmd = "GET_ASSET_LIST" /\ calllog[1].ok
                         /\ calllog[2].cmd = "download_start"
                         /\ calllog[3].cmd = "download_end" /\ calllog[3].ok
                         /\ calllog[4].cmd = "exists" /\ calllog[4].ok
                         /\ calllog[i].src = loc[r].download_path
                         /\ calllog[3].src = calllog[i].src
                         /\ calllog[4].src = calllog[i].src
                         /\ calllog[i].tgt = Rooted(arg[r].target_path)
                         /\ calllog[i].ow = arg[r].overwrite
            /\ (ImportReturned(r) /\ ret[r] \in {"download_failed", "file_missing"})
                  => ~Called(r, "IMPORT_ASSET")

\* C10 witness: a call with a target given without "Assets/" was imported.
C10_Witness ==
    \E r \in Req :
        /\ pc[r] = "done" /\ ~bat[r].on
        /\ ret[r] = "imported"
        /\ ~StartsWith(arg[r].target_path, AssetsPrefix)
        /\ Len(CallLog(r)) = 5
        /\ CallLog(r)[5].cmd = "IMPORT_ASSET"

\* IMPORT_ASSET has answered the current import_remote_asset of r with a
\* response, and the cleanup step is behind it.
Answered(r) ==
    /\ loc[r].response # "none"
    /\ pc[r] = "result" \/ ImportReturned(r)

\* C11: once IMPORT_ASSET has answered a call with temp_download=true, the
\* cleanup is attempted whether the answer reports success or failure (a
\* cleanup that went through has removed the downloaded file and the
\* temporary directory), and the returned status follows the answer alone:
\* "imported" for success and "import_failed" for failure, also when the
\* cleanup raised.
C11_CleanupNeverMasksResult ==
    /\ [](\A r \in Req :
            Answered(r) =>
               /\ arg[r].temp_download => loc[r].cleanup \in {"done", "raised"}
               /\ ImportReturned(r) =>
                     ret[r] = IF loc[r].response = "success"
                              THEN "imported" ELSE "import_failed")
    /\ [][\A r \in Req :
            (pc[r] = "cleanup" /\ pc'[r] # "cleanup" /\ arg[r].temp_download) =>
               /\ pc'[r] = "result"
               /\ loc'[r].response = loc[r].response
               /\ loc'[r].cleanup = "done" =>
                     /\ loc[r].temp_dir \notin dirs'
                     /\ \A f \in files' : f[1] # loc[r].download_path]_vars

\* A call with temp_download=true whose cleanup raised has returned
\* "imported" after a successful answer.
C11_Witness ==
    \E r \in Req :
        /\ ImportReturned(r)
        /\ arg[r].temp_download
        /\ loc[r].cleanup = "raised"
        /\ loc[r].response = "success"
        /\ ret[r] = "imported"


\* The pipeline of the batch item that r is at has a download under way.
Downloading(r) == pc[r] \in {"dl_connect", "dl_stream", "dl_closing"}

\* The download that r's batch started with call k of its log has ended by
\* download_file raising: no further call was made for its item, and the
\* item's import_remote_asset returned the exception string, which the
\* batch has appended as the item's line, or is about to, or failed to
\* (urls has no length).
DownloadRaised(r, k) ==
    LET item == log[r][k].item
    IN  /\ k < Len(log[r]) => log[r][k + 1].item > item
        /\ IF item <= bat[r].i
           THEN bat[r].results[item].result = "exception"
           ELSE pc[r] \in {"b_append", "b_except", "raised"} /\ ret[r] = "exception"

\* C12: within one batch the items are processed strictly one after the
\* other: the collaborator calls are made in item order, a call is made for
\* item k only when the lines of all items before k have been appended, and
\* a download that was started is the last call made until it has ended (by
\* download_file returning or raising), so at most one download is under
\* way and no send_command is made meanwhile.
C12_BatchSequential ==
    \A r \in Req :
        bat[r].on =>
           /\ Len(bat[r].results) = bat[r].i
           /\ \A k \in DOMAIN log[r] :
                 /\ log[r][k].item \in 1..Len(bat[r].urls)
                 /\ log[r][k].item <= bat[r].i + 1
                 /\ k < Len(log[r]) => log[r][k].item <= log[r][k + 1].item
                 /\ log[r][k].cmd = "download_start" =>
                       \/ DownloadRaised(r, k)
                       \/ IF k = Len(log[r])
                          THEN Downloading(r) /\ log[r][k].item = bat[r].i + 1
                          ELSE /\ log[r][k + 1].cmd = "download_end"
                               /\ log[r][k + 1].item = log[r][k].item

\* The second item of a batch is downloading after the first item made all
\* its calls, IMPORT_ASSET included.
C12_Witness ==
    \E r \in Req :
        /\ bat[r].on
        /\ bat[r].i = 1
        /\ pc[r] = "dl_stream"
        /\ \E k \in DOMAIN log[r] : log[r][k].item = 1 /\ log[r][k].cmd = "IMPORT_ASSET"
        /\ log[r][Len(log[r])].cmd = "download_start"
        /\ log[r][Len(log[r])].item = 2

\* An argument that is empty or not a str.
InvalidArg(v) == v \in {<<>>, PyInt, PyNone}

\* r enters import_remote_asset with an invalid url or target_path and this
\* step takes it through lines 318-326.
InvalidCall(r) ==
    /\ pc[r] = "enter"
    /\ pc'[r] # "enter"
    /\ InvalidArg(arg[r].url) \/ InvalidArg(arg[r].target_path)

\* The call of r returns in this step and no collaborator call is made, no
\* download started, no directory or file made.
ReturnsUntouched(r) ==
    /\ pc'[r] \in {"done", "b_append"}
    /\ log' = log
    /\ dirs' = dirs
    /\ files' = files

\* C13 as stated: import_remote_asset called with an empty or non-string url
\* or target_path returns a validation error string, with no send_command,
\* no download and no directory made.
C13_InvalidArgsValidationError ==
    [][\A r \in Req :
          InvalidCall(r) =>
             /\ ReturnsUntouched(r)
             /\ ret'[r] \in {"bad_url", "bad_target"}]_vars

\* C13 amended: import_remote_asset called with an empty or non-string url
\* or target_path returns at once with no send_command, no download and no
\* directory made; it returns the validation error string of the url, or
\* else of the target path, when get_unity_connection() returned, and the
\* string made of the exception when get_unity_connection() raised.
C13_InvalidArgsReturnUntouched ==
    [][\A r \in Req :
          InvalidCall(r) =>
             /\ ReturnsUntouched(r)
             /\ ret'[r] = IF loc'[r].unity # "connected" THEN "exception"
                          ELSE IF InvalidArg(arg[r].url) THEN "bad_url"
                          ELSE "bad_target"]_vars

\* A call with a url that is no str, connected, has returned the validation
\* error of the url having made no collaborator call.
C13_Witness ==
    \E r \in Req :
        /\ ImportReturned(r)
        /\ arg[r].url = PyInt
        /\ loc[r].unity = "connected"
        /\ ret[r] = "bad_url"
        /\ CallLog(r) = <<>>

\* The commands of the synchronous tools that change the project.
Mutating == {"IMPORT_ASSET", "CREATE_PREFAB", "INSTANTIATE_PREFAB"}

\* C14: a synchronous tool sends its mutating command only straight after a
\* GET_ASSET_LIST that answered, and for the path the command carries (the
\* target path as passed for import_asset, the prefab path ending in
\* ".prefab" for the prefab tools): IMPORT_ASSET and CREATE_PREFAB are not
\* sent when an entry of the answer has that path and overwrite is false,
\* and INSTANTIATE_PREFAB is sent only when an entry of the answer has it.
C14_MutationGuardedByListing ==
    \A k \in DOMAIN sync.log :
        sync.log[k].cmd \in Mutating =>
           /\ k > 1
           /\ sync.log[k - 1].cmd = "GET_ASSET_LIST"
           /\ sync.log[k].path \in {sync.given, sync.given \o PrefabSuffix}
           /\ sync.log[k].cmd = "IMPORT_ASSET" =>
                 /\ sync.tool = "import_asset"
                 /\ sync.log[k].path = sync.given
                 /\ ~(sync.given \in sync.log[k - 1].paths /\ ~sync.overwrite)
           /\ sync.log[k].cmd = "CREATE_PREFAB" =>
                 /\ sync.tool = "create_prefab"
                 /\ EndsWith(Lower(sync.log[k].path), PrefabSuffix)
                 /\ ~(sync.log[k].path \in sync.log[k - 1].paths /\ ~sync.overwrite)
           /\ sync.log[k].cmd = "INSTANTIATE_PREFAB" =>
                 /\ sync.tool = "instantiate_prefab"
                 /\ EndsWith(Lower(sync.log[k].path), PrefabSuffix)
                 /\ sync.log[k].path \in sync.log[k - 1].paths

\* create_prefab, called without overwrite for a path without the suffix,
\* was answered an entry at the suffixed path and has returned having sent
\* no CREATE_PREFAB.
C14_Witness ==
    /\ sync.tool = "create_prefab"
    /\ sync.pc = "done"
    /\ sync.ret = "exists"
    /\ ~sync.overwrite
    /\ sync.given = AssetsPrefix \o <<"p">>
    /\ sync.given \o PrefabSuffix \in sync.listed
    /\ \A k \in DOMAIN sync.log : sync.log[k].cmd \notin Mutating

====
